---- MODULE Spec2Model ----
(***************************************************************************)
(* Planning-poker server (src/server.js): the in-memory room registry, the *)
(* Room voting state machine and the socket.io event handlers.             *)
(*                                                                         *)
(* Every handler runs synchronously up to its first `await                 *)
(* historyLogger.logAction(...)`.  All handlers but `disconnect` do        *)
(* nothing to the shared state after that await, so each is one atomic     *)
(* action.  The disconnect handler reads and changes shared state after    *)
(* its awaits, so it is three steps and other handlers may run between     *)
(* them.                                                                   *)
(*                                                                         *)
(* The stock client (src/public/app.js) is one more process per socket:    *)
(* it keeps the last room snapshot it received and sends events from it.   *)
(*                                                                         *)
(* The two non-ASCII cards of the deck are written "1/2" (the one-half     *)
(* card) and "coffee" (the break card).                                    *)
(***************************************************************************)
EXTENDS Integers, Sequences, FiniteSets, TLC

\* ---------------------------------------------------------------- bounds
\* the sockets that connect, and the create-room events handled in a run
MaxConns == 2
MaxRooms == 2

Conns == 1..MaxConns

\* the values uuidv4().substring(0, 8) may return, and the ids a client may send
RoomIds == {"r1", "r2"}
RoomNames == {"Sprint 1"}
UserNames == {"Alice"}
Stories == {"S1"}
\* vote payloads a client may send: a numeric card and the unknown-estimate card
VoteInputs == {"5", "?"}

NoRoom == 0
NoUser == "undefined"
MASK == "***"

\* ------------------------------------------------------------- variables
VARIABLES
  conn,      \* per socket: position of its connection / disconnect handler
  heap,      \* the Room objects allocated so far, by reference
  rooms,     \* const rooms = new Map(): sequence of [id, ref] in insertion order
  channels,  \* socket.io channel membership (socket.join / io.to)
  hroom,     \* local `room` of a suspended disconnect handler
  huser,     \* local `user` (its name) of a suspended disconnect handler
  emitted,   \* what the last handler step emitted, in order
  last,      \* the event whose handler took the last step
  currentRoom \* per socket, `let currentRoom` of its client (src/public/app.js)

vars == <<conn, heap, rooms, channels, hroom, huser, emitted, last, currentRoom>>

\* -------------------------------------------------------------- helpers
Range(s) == {s[i] : i \in DOMAIN s}

cardValues ==
  <<"0", "1/2", "1", "2", "3", "5", "8", "13", "21", "34", "55", "89", "?", "coffee">>

\* parseInt(v) over the tokens of the model: the integer a token starts with.
\* A token that starts with no digit ("1/2" stands for the one-half sign, "?",
\* "coffee") parses to NaN.
IntPrefix ==
  {<<"0", 0>>, <<"1", 1>>, <<"2", 2>>, <<"3", 3>>, <<"5", 5>>, <<"8", 8>>,
   <<"13", 13>>, <<"21", 21>>, <<"34", 34>>, <<"55", 55>>, <<"89", 89>>,
   <<"100", 100>>}

isNaNParse(v) == ~\E p \in IntPrefix : p[1] = v

parseInt(v) == (CHOOSE p \in IntPrefix : p[1] = v)[2]

\* the votes Map, as a function from the sockets that voted to their token
NoVotes == [c \in {} |-> MASK]

\* a Room object nothing refers to any more
Collected == [id |-> "", name |-> "", users |-> <<>>, currentStory |-> "",
              votes |-> NoVotes, votingRevealed |-> FALSE]

\* ----------------------------------------------------------- class Room
\* constructor(id, name); createdAt is written here and read nowhere
NewRoom(id, name) ==
  [id |-> id, name |-> name, users |-> <<>>, currentStory |-> "",
   votes |-> NoVotes, votingRevealed |-> FALSE]

UserIds(room) == {room.users[i].id : i \in DOMAIN room.users}

UsersHas(room, socketId) == socketId \in UserIds(room)

UsersGet(room, socketId) ==
  LET i == CHOOSE i \in DOMAIN room.users : room.users[i].id = socketId
  IN room.users[i]

VoteKeys(room) == DOMAIN room.votes

\* votes.set(key, value)
VotesSet(votes, k, v) == [x \in DOMAIN votes \cup {k} |-> IF x = k THEN v ELSE votes[x]]

\* votes.delete(key)
VotesDelete(votes, k) == [x \in DOMAIN votes \ {k} |-> votes[x]]

\* The users Map and the rooms Map are sequences of entries in insertion
\* order, each entry carrying its key in the field id.
\* Map.set(key, entry): in place when the key is present, appended otherwise
MapSet(m, k, entry) ==
  IF \E i \in DOMAIN m : m[i].id = k
    THEN [i \in DOMAIN m |-> IF m[i].id = k THEN entry ELSE m[i]]
    ELSE Append(m, entry)

\* Map.delete(key)
MapDelete(m, k) == SelectSeq(m, LAMBDA e : e.id # k)

\* the object behind a reference held by the registry or by a handler
Deref(ref) == heap[ref]

addUser(room, socketId, userName) ==
  [room EXCEPT !.users =
    MapSet(room.users, socketId,
           [id |-> socketId, name |-> userName, isSpectator |-> FALSE])]

\* removeUser without its votes.delete
removeUserKeepVote(room, socketId) ==
  [room EXCEPT !.users = MapDelete(room.users, socketId)]

removeUser(room, socketId) ==
  [room EXCEPT !.users = MapDelete(room.users, socketId),
               !.votes = VotesDelete(room.votes, socketId)]

\* castVote that keeps a vote the socket has already cast
castVoteFirstWins(room, socketId, vote) ==
  IF UsersHas(room, socketId) /\ ~UsersGet(room, socketId).isSpectator
     /\ socketId \notin VoteKeys(room)
    THEN [room EXCEPT !.votes = VotesSet(room.votes, socketId, vote)]
    ELSE room

castVote(room, socketId, vote) ==
  IF UsersHas(room, socketId) /\ ~UsersGet(room, socketId).isSpectator
    THEN [room EXCEPT !.votes = VotesSet(room.votes, socketId, vote)]
    ELSE room

\* clearVotes with this.votingRevealed = !this.votingRevealed
clearVotesToggle(room) ==
  [room EXCEPT !.votes = NoVotes, !.votingRevealed = ~room.votingRevealed]

clearVotes(room) == [room EXCEPT !.votes = NoVotes, !.votingRevealed = FALSE]

\* revealVotes with this.votingRevealed = !this.votingRevealed
revealVotesToggle(room) == [room EXCEPT !.votingRevealed = ~room.votingRevealed]

revealVotes(room) == [room EXCEPT !.votingRevealed = TRUE]

\* reduce((a, b) => a + b, 0)
RECURSIVE SumSeq(_)
SumSeq(s) == IF s = <<>> THEN 0 ELSE Head(s) + SumSeq(Tail(s))

\* Array.from(m.values()) of a Map held as a function
RECURSIVE ValuesOf(_)
ValuesOf(m) ==
  IF DOMAIN m = {} THEN <<>>
  ELSE LET k == CHOOSE k \in DOMAIN m : TRUE
       IN <<m[k]>> \o ValuesOf([x \in DOMAIN m \ {k} |-> m[x]])

\* [...numericVotes].sort((a, b) => a - b): insertion into a sorted sequence
RECURSIVE InsertSorted(_, _)
InsertSorted(s, x) ==
  IF s = <<>> THEN <<x>>
  ELSE IF x <= Head(s) THEN <<x>> \o s
  ELSE <<Head(s)>> \o InsertSorted(Tail(s), x)

RECURSIVE SortAsc(_)
SortAsc(s) == IF s = <<>> THEN <<>> ELSE InsertSorted(SortAsc(Tail(s)), Head(s))

MinSeq(s) == CHOOSE x \in Range(s) : \A y \in Range(s) : x <= y
MaxSeq(s) == CHOOSE x \in Range(s) : \A y \in Range(s) : x >= y

\* getVotingStats(): `null`
NoStats == [null |-> TRUE]

\* getVotingStats with `if (numericVotes.length <= 1) return null`
getVotingStatsNeedsTwo(room) ==
  LET votes == SelectSeq(ValuesOf(room.votes), LAMBDA v : v # "?" /\ v # "coffee")
      parsable == SelectSeq(votes, LAMBDA v : ~isNaNParse(v))
      numericVotes == [i \in DOMAIN parsable |-> parseInt(parsable[i])]
      n == Len(numericVotes)
      sortedVotes == SortAsc(numericVotes)
  IN IF n <= 1 THEN NoStats
     ELSE [average |-> (20 * SumSeq(numericVotes) + n) \div (2 * n),
           median |-> IF n % 2 = 0
                        THEN (sortedVotes[n \div 2] + sortedVotes[n \div 2 + 1]) * 5
                        ELSE sortedVotes[n \div 2 + 1] * 10,
           min |-> MinSeq(numericVotes),
           max |-> MaxSeq(numericVotes),
           totalVotes |-> Cardinality(DOMAIN room.votes)]

\* getVotingStats with the median taken from numericVotes, not sortedVotes
getVotingStatsUnsortedMedian(room) ==
  LET votes == SelectSeq(ValuesOf(room.votes), LAMBDA v : v # "?" /\ v # "coffee")
      parsable == SelectSeq(votes, LAMBDA v : ~isNaNParse(v))
      numericVotes == [i \in DOMAIN parsable |-> parseInt(parsable[i])]
      n == Len(numericVotes)
  IN IF n = 0 THEN NoStats
     ELSE [average |-> (20 * SumSeq(numericVotes) + n) \div (2 * n),
           median |-> IF n % 2 = 0
                        THEN (numericVotes[n \div 2] + numericVotes[n \div 2 + 1]) * 5
                        ELSE numericVotes[n \div 2 + 1] * 10,
           min |-> MinSeq(numericVotes),
           max |-> MaxSeq(numericVotes),
           totalVotes |-> Cardinality(DOMAIN room.votes)]

\* getVotingStats with Math.floor(average * 10) / 10
getVotingStatsFloorAverage(room) ==
  LET votes == SelectSeq(ValuesOf(room.votes), LAMBDA v : v # "?" /\ v # "coffee")
      parsable == SelectSeq(votes, LAMBDA v : ~isNaNParse(v))
      numericVotes == [i \in DOMAIN parsable |-> parseInt(parsable[i])]
      n == Len(numericVotes)
      sortedVotes == SortAsc(numericVotes)
  IN IF n = 0 THEN NoStats
     ELSE [average |-> (10 * SumSeq(numericVotes)) \div n,
           median |-> IF n % 2 = 0
                        THEN (sortedVotes[n \div 2] + sortedVotes[n \div 2 + 1]) * 5
                        ELSE sortedVotes[n \div 2 + 1] * 10,
           min |-> MinSeq(numericVotes),
           max |-> MaxSeq(numericVotes),
           totalVotes |-> Cardinality(DOMAIN room.votes)]

\* getVotingStats that answers null while the room is not revealed
getVotingStatsIfRevealed(room) ==
  LET votes == SelectSeq(ValuesOf(room.votes), LAMBDA v : v # "?" /\ v # "coffee")
      parsable == SelectSeq(votes, LAMBDA v : ~isNaNParse(v))
      numericVotes == [i \in DOMAIN parsable |-> parseInt(parsable[i])]
      n == Len(numericVotes)
      sortedVotes == SortAsc(numericVotes)
  IN IF ~room.votingRevealed \/ n = 0 THEN NoStats
     ELSE [average |-> (20 * SumSeq(numericVotes) + n) \div (2 * n),
           median |-> IF n % 2 = 0
                        THEN (sortedVotes[n \div 2] + sortedVotes[n \div 2 + 1]) * 5
                        ELSE sortedVotes[n \div 2 + 1] * 10,
           min |-> MinSeq(numericVotes),
           max |-> MaxSeq(numericVotes),
           totalVotes |-> Cardinality(DOMAIN room.votes)]

\* getVotingStats(): average and median are carried in tenths
\* (average 5.3 is 53, median 6.5 is 65); Math.round(x) is floor(x + 1/2)
getVotingStats(room) ==
  LET votes == SelectSeq(ValuesOf(room.votes), LAMBDA v : v # "?" /\ v # "coffee")
      parsable == SelectSeq(votes, LAMBDA v : ~isNaNParse(v))
      numericVotes == [i \in DOMAIN parsable |-> parseInt(parsable[i])]
      n == Len(numericVotes)
      sortedVotes == SortAsc(numericVotes)
  IN IF n = 0 THEN NoStats
     ELSE [average |-> (20 * SumSeq(numericVotes) + n) \div (2 * n),
           median |-> IF n % 2 = 0
                        THEN (sortedVotes[n \div 2] + sortedVotes[n \div 2 + 1]) * 5
                        ELSE sortedVotes[n \div 2 + 1] * 10,
           min |-> MinSeq(numericVotes),
           max |-> MaxSeq(numericVotes),
           totalVotes |-> Cardinality(DOMAIN room.votes)]

\* ------------------------------------------------- connection helpers
\* rooms.get(roomId): the reference stored under roomId, NoRoom when absent
RoomsGet(roomId) ==
  IF \E i \in DOMAIN rooms : rooms[i].id = roomId
    THEN rooms[CHOOSE i \in DOMAIN rooms : rooms[i].id = roomId].ref
    ELSE NoRoom

\* getUserRoom(socketId): the first room, in the registry's insertion order,
\* whose users hold socketId
getUserRoom(socketId) ==
  LET hits == {i \in DOMAIN rooms : UsersHas(heap[rooms[i].ref], socketId)}
  IN IF hits = {} THEN NoRoom
     ELSE rooms[CHOOSE i \in hits : \A j \in hits : i <= j].ref

\* getRoomData without the masking branch
getRoomDataUnmasked(room) ==
  [id |-> room.id, name |-> room.name, users |-> room.users,
   currentStory |-> room.currentStory,
   votes |-> room.votes,
   votingRevealed |-> room.votingRevealed, cardValues |-> cardValues]

\* getRoomData that leaves the entries out instead of masking them
getRoomDataDropping(room) ==
  [id |-> room.id, name |-> room.name, users |-> room.users,
   currentStory |-> room.currentStory,
   votes |-> IF room.votingRevealed THEN room.votes ELSE NoVotes,
   votingRevealed |-> room.votingRevealed, cardValues |-> cardValues]

\* getRoomData(room): the snapshot sent inside every room-bearing event
getRoomData(room) ==
  [id |-> room.id, name |-> room.name, users |-> room.users,
   currentStory |-> room.currentStory,
   votes |-> IF room.votingRevealed THEN room.votes
             ELSE [key \in DOMAIN room.votes |-> MASK],
   votingRevealed |-> room.votingRevealed, cardValues |-> cardValues]

\* one emitted event: `to` is the set of sockets it is delivered to and `obj`
\* the Room object its snapshot was taken from (NoRoom when it carries none)
Emit(event, to, obj, payload) ==
  [event |-> event, to |-> to, obj |-> obj, payload |-> payload]

\* the event a handler step belongs to: its name, its socket and its payload
Handling(ev, c, data) == [ev |-> ev, socket |-> c, data |-> data]

\* socket.emit(...): delivered to the socket itself
ToSocket(c) == {c}

\* io.to(roomId).emit(...): delivered to every socket in that channel
ToChannel(ch, roomId) == ch[roomId]

\* `let currentRoom = null` of a client: no snapshot received yet
NullRoom == [null |-> TRUE]

\* -------------------------------------------------------------- Init
\* The server has started, the registry is empty, and io.on('connection') has
\* registered the handlers of every socket of Conns. No client has received
\* an event. The specifications of the server alone take no step of a client:
\* what the server emits stays in flight and currentRoom stays as it is.
Init ==
  /\ conn = [c \in Conns |-> "connected"]
  /\ heap = <<>>
  /\ rooms = <<>>
  /\ channels = [r \in RoomIds |-> {}]
  /\ hroom = [c \in Conns |-> NoRoom]
  /\ huser = [c \in Conns |-> NoUser]
  /\ emitted = <<>>
  /\ last = Handling("listen", 0, <<>>)
  /\ currentRoom = [c \in Conns |-> NullRoom]

\* The Room objects of h that the next state still refers to (from the
\* registry, from a suspended disconnect handler, from an event just emitted)
\* are kept; an object nothing refers to can never be read again.
Collect(h) ==
  LET live == {rooms'[i].ref : i \in DOMAIN rooms'}
              \cup {hroom'[c] : c \in Conns}
              \cup {emitted'[i].obj : i \in DOMAIN emitted'}
  IN [ref \in DOMAIN h |-> IF ref \in live THEN h[ref] ELSE Collected]

\* create-room with room-created sent by io.to(roomId).emit instead of
\* socket.emit
CreateRoomBroadcast(c, roomId, roomName, userName) ==
  /\ last' = Handling("create-room", c, [roomName |-> roomName, userName |-> userName])
  /\ conn[c] = "connected"
  /\ Len(heap) < MaxRooms
  /\ LET ref == Len(heap) + 1
         room == addUser(NewRoom(roomId, roomName), c, userName)
         ch == [channels EXCEPT ![roomId] = @ \cup {c}]
     IN /\ rooms' = MapSet(rooms, roomId, [id |-> roomId, ref |-> ref])
        /\ channels' = ch
        /\ emitted' = <<Emit("room-created", ToChannel(ch, roomId), ref,
                             [roomId |-> roomId, room |-> getRoomData(room)])>>
        /\ UNCHANGED <<conn, hroom, huser, currentRoom>>
        /\ heap' = Collect(Append(heap, room))

\* socket.on('create-room'): roomId is whatever the id generator returns
CreateRoom(c, roomId, roomName, userName) ==
  /\ last' = Handling("create-room", c, [roomName |-> roomName, userName |-> userName])
  /\ conn[c] = "connected"
  /\ Len(heap) < MaxRooms
  /\ LET ref == Len(heap) + 1
         room == addUser(NewRoom(roomId, roomName), c, userName)
     IN /\ rooms' = MapSet(rooms, roomId, [id |-> roomId, ref |-> ref])
        /\ channels' = [channels EXCEPT ![roomId] = @ \cup {c}]
        /\ emitted' = <<Emit("room-created", ToSocket(c), ref,
                             [roomId |-> roomId, room |-> getRoomData(room)])>>
        /\ UNCHANGED <<conn, hroom, huser, currentRoom>>
        /\ heap' = Collect(Append(heap, room))

\* the not-found branch with socket.join(data.roomId) done before the lookup
JoinRoomNotFoundAfterJoin(c, roomId, userName) ==
  /\ last' = Handling("join-room", c, [roomId |-> roomId, userName |-> userName])
  /\ conn[c] = "connected"
  /\ RoomsGet(roomId) = NoRoom
  /\ channels' = [channels EXCEPT ![roomId] = @ \cup {c}]
  /\ emitted' = <<Emit("error", ToSocket(c), NoRoom, [message |-> "Room not found"])>>
  /\ UNCHANGED <<conn, rooms, hroom, huser, currentRoom>>
  /\ heap' = Collect(heap)

\* socket.on('join-room') when rooms.get(data.roomId) is undefined
JoinRoomNotFound(c, roomId, userName) ==
  /\ last' = Handling("join-room", c, [roomId |-> roomId, userName |-> userName])
  /\ conn[c] = "connected"
  /\ RoomsGet(roomId) = NoRoom
  /\ emitted' = <<Emit("error", ToSocket(c), NoRoom, [message |-> "Room not found"])>>
  /\ UNCHANGED <<conn, rooms, channels, hroom, huser, currentRoom>>
  /\ heap' = Collect(heap)

\* socket.on('join-room') when the room exists
JoinRoomFound(c, roomId, userName) ==
  /\ last' = Handling("join-room", c, [roomId |-> roomId, userName |-> userName])
  /\ conn[c] = "connected"
  /\ RoomsGet(roomId) # NoRoom
  /\ LET ref == RoomsGet(roomId)
         room == addUser(Deref(ref), c, userName)
         ch == [channels EXCEPT ![roomId] = @ \cup {c}]
     IN /\ channels' = ch
        /\ emitted' =
             <<Emit("room-joined", ToSocket(c), ref, [room |-> getRoomData(room)]),
               Emit("user-joined", ToChannel(ch, roomId), ref,
                    [user |-> UsersGet(room, c), room |-> getRoomData(room)])>>
        /\ UNCHANGED <<conn, rooms, hroom, huser, currentRoom>>
        /\ heap' = Collect([heap EXCEPT ![ref] = room])

JoinRoom(c, roomId, userName) ==
  \/ JoinRoomNotFound(c, roomId, userName)
  \/ JoinRoomFound(c, roomId, userName)

RoomEvents == {"set-story", "cast-vote", "reveal-votes", "clear-votes"}

\* a room event from a socket in no room answered with an error event
NoRoomEventError(c, ev) ==
  /\ last' = Handling(ev, c, <<>>)
  /\ conn[c] = "connected"
  /\ getUserRoom(c) = NoRoom
  /\ emitted' = <<Emit("error", ToSocket(c), NoRoom, [message |-> "Room not found"])>>
  /\ UNCHANGED <<conn, rooms, channels, hroom, huser, currentRoom>>
  /\ heap' = Collect(heap)

\* set-story, cast-vote, reveal-votes or clear-votes from a socket for which
\* getUserRoom(socket.id) is null: the handler does nothing
NoRoomEvent(c, ev) ==
  /\ last' = Handling(ev, c, <<>>)
  /\ conn[c] = "connected"
  /\ getUserRoom(c) = NoRoom
  /\ emitted' = <<>>
  /\ UNCHANGED <<conn, rooms, channels, hroom, huser, currentRoom>>
  /\ heap' = Collect(heap)

\* set-story that takes the room from the registry without asking whether
\* the sender is one of its members
SetStoryFirstRoom(c, story) ==
  /\ last' = Handling("set-story", c, [story |-> story])
  /\ conn[c] = "connected"
  /\ rooms # <<>>
  /\ LET ref == rooms[1].ref
         room == clearVotes([Deref(ref) EXCEPT !.currentStory = story])
     IN /\ emitted' = <<Emit("story-updated", ToChannel(channels, room.id), ref,
                             [story |-> story, room |-> getRoomData(room)])>>
        /\ UNCHANGED <<conn, rooms, channels, hroom, huser, currentRoom>>
        /\ heap' = Collect([heap EXCEPT ![ref] = room])

\* set-story that replaces the story and leaves the votes and the reveal as
\* they are
SetStoryKeepVotes(c, story) ==
  /\ last' = Handling("set-story", c, [story |-> story])
  /\ conn[c] = "connected"
  /\ getUserRoom(c) # NoRoom
  /\ LET ref == getUserRoom(c)
         room == [Deref(ref) EXCEPT !.currentStory = story]
     IN /\ emitted' = <<Emit("story-updated", ToChannel(channels, room.id), ref,
                             [story |-> story, room |-> getRoomData(room)])>>
        /\ UNCHANGED <<conn, rooms, channels, hroom, huser, currentRoom>>
        /\ heap' = Collect([heap EXCEPT ![ref] = room])

\* socket.on('set-story')
SetStory(c, story) ==
  /\ last' = Handling("set-story", c, [story |-> story])
  /\ conn[c] = "connected"
  /\ getUserRoom(c) # NoRoom
  /\ LET ref == getUserRoom(c)
         room == clearVotes([Deref(ref) EXCEPT !.currentStory = story])
     IN /\ emitted' = <<Emit("story-updated", ToChannel(channels, room.id), ref,
                             [story |-> story, room |-> getRoomData(room)])>>
        /\ UNCHANGED <<conn, rooms, channels, hroom, huser, currentRoom>>
        /\ heap' = Collect([heap EXCEPT ![ref] = room])

\* socket.on('cast-vote')
CastVote(c, vote) ==
  /\ last' = Handling("cast-vote", c, [vote |-> vote])
  /\ conn[c] = "connected"
  /\ getUserRoom(c) # NoRoom
  /\ LET ref == getUserRoom(c)
         room == castVote(Deref(ref), c, vote)
     IN /\ emitted' = <<Emit("vote-cast", ToChannel(channels, room.id), ref,
                             [userId |-> c, hasVoted |-> TRUE,
                              room |-> getRoomData(room)])>>
        /\ UNCHANGED <<conn, rooms, channels, hroom, huser, currentRoom>>
        /\ heap' = Collect([heap EXCEPT ![ref] = room])

\* reveal-votes with the snapshot built before revealVotes()
RevealVotesSnapshotFirst(c) ==
  /\ last' = Handling("reveal-votes", c, <<>>)
  /\ conn[c] = "connected"
  /\ getUserRoom(c) # NoRoom
  /\ LET ref == getUserRoom(c)
         stats == getVotingStats(Deref(ref))
         snapshot == getRoomData(Deref(ref))
         room == revealVotes(Deref(ref))
     IN /\ emitted' = <<Emit("votes-revealed", ToChannel(channels, room.id), ref,
                             [room |-> snapshot, stats |-> stats])>>
        /\ UNCHANGED <<conn, rooms, channels, hroom, huser, currentRoom>>
        /\ heap' = Collect([heap EXCEPT ![ref] = room])

\* socket.on('reveal-votes'): the stats are taken before revealVotes()
RevealVotes(c) ==
  /\ last' = Handling("reveal-votes", c, <<>>)
  /\ conn[c] = "connected"
  /\ getUserRoom(c) # NoRoom
  /\ LET ref == getUserRoom(c)
         stats == getVotingStats(Deref(ref))
         room == revealVotes(Deref(ref))
     IN /\ emitted' = <<Emit("votes-revealed", ToChannel(channels, room.id), ref,
                             [room |-> getRoomData(room), stats |-> stats])>>
        /\ UNCHANGED <<conn, rooms, channels, hroom, huser, currentRoom>>
        /\ heap' = Collect([heap EXCEPT ![ref] = room])

\* clear-votes that resets the story as well
ClearVotesAndStory(c) ==
  /\ last' = Handling("clear-votes", c, <<>>)
  /\ conn[c] = "connected"
  /\ getUserRoom(c) # NoRoom
  /\ LET ref == getUserRoom(c)
         room == [clearVotes(Deref(ref)) EXCEPT !.currentStory = ""]
     IN /\ emitted' = <<Emit("votes-cleared", ToChannel(channels, room.id), ref,
                             [room |-> getRoomData(room)])>>
        /\ UNCHANGED <<conn, rooms, channels, hroom, huser, currentRoom>>
        /\ heap' = Collect([heap EXCEPT ![ref] = room])

\* socket.on('clear-votes')
ClearVotes(c) ==
  /\ last' = Handling("clear-votes", c, <<>>)
  /\ conn[c] = "connected"
  /\ getUserRoom(c) # NoRoom
  /\ LET ref == getUserRoom(c)
         room == clearVotes(Deref(ref))
     IN /\ emitted' = <<Emit("votes-cleared", ToChannel(channels, room.id), ref,
                             [room |-> getRoomData(room)])>>
        /\ UNCHANGED <<conn, rooms, channels, hroom, huser, currentRoom>>
        /\ heap' = Collect([heap EXCEPT ![ref] = room])

\* the socket has left every channel by the time 'disconnect' is dispatched
LeaveAll(c) == [r \in RoomIds |-> channels[r] \ {c}]

\* socket.on('disconnect') of a socket that getUserRoom finds in no room
DisconnectNoRoom(c) ==
  /\ last' = Handling("disconnect", c, <<>>)
  /\ conn[c] = "connected"
  /\ getUserRoom(c) = NoRoom
  /\ channels' = LeaveAll(c)
  /\ emitted' = <<>>
  /\ conn' = [conn EXCEPT ![c] = "gone"]
  /\ UNCHANGED <<rooms, hroom, huser, currentRoom>>
  /\ heap' = Collect(heap)

\* socket.on('disconnect'), up to the first await: the user is removed and the
\* handler waits for the user_disconnected log write
DisconnectRemove(c) ==
  /\ last' = Handling("disconnect", c, <<>>)
  /\ conn[c] = "connected"
  /\ getUserRoom(c) # NoRoom
  /\ LET ref == getUserRoom(c)
     IN /\ channels' = LeaveAll(c)
        /\ emitted' = <<>>
        /\ conn' = [conn EXCEPT ![c] = "logDisconnected"]
        /\ hroom' = [hroom EXCEPT ![c] = ref]
        /\ huser' = [huser EXCEPT ![c] = UsersGet(Deref(ref), c).name]
        /\ UNCHANGED <<rooms, currentRoom>>
        /\ heap' = Collect([heap EXCEPT ![ref] = removeUser(Deref(ref), c)])

\* the disconnect handler resumes after the user_disconnected log write and
\* reads room.users.size: zero, so it waits for the room_deleted log write
DisconnectEmpty(c) ==
  /\ last' = Handling("disconnect-resumed", c, <<>>)
  /\ conn[c] = "logDisconnected"
  /\ Len(Deref(hroom[c]).users) = 0
  /\ conn' = [conn EXCEPT ![c] = "logDeleted"]
  /\ emitted' = <<>>
  /\ UNCHANGED <<rooms, channels, hroom, huser, currentRoom>>
  /\ heap' = Collect(heap)

\* the disconnect handler resumes after the user_disconnected log write and
\* reads room.users.size: not zero, so user-left goes to the room's channel
DisconnectUserLeft(c) ==
  /\ last' = Handling("disconnect-resumed", c, <<>>)
  /\ conn[c] = "logDisconnected"
  /\ Len(Deref(hroom[c]).users) # 0
  /\ LET room == Deref(hroom[c])
     IN emitted' = <<Emit("user-left", ToChannel(channels, room.id), hroom[c],
                          [userId |-> c, userName |-> huser[c],
                           room |-> getRoomData(room)])>>
  /\ conn' = [conn EXCEPT ![c] = "gone"]
  /\ hroom' = [hroom EXCEPT ![c] = NoRoom]
  /\ huser' = [huser EXCEPT ![c] = NoUser]
  /\ UNCHANGED <<rooms, channels, currentRoom>>
  /\ heap' = Collect(heap)

\* the disconnect handler resumes after the room_deleted log write:
\* rooms.delete(room.id)
DisconnectDelete(c) ==
  /\ last' = Handling("disconnect-resumed", c, <<>>)
  /\ conn[c] = "logDeleted"
  /\ rooms' = MapDelete(rooms, Deref(hroom[c]).id)
  /\ conn' = [conn EXCEPT ![c] = "gone"]
  /\ hroom' = [hroom EXCEPT ![c] = NoRoom]
  /\ huser' = [huser EXCEPT ![c] = NoUser]
  /\ emitted' = <<>>
  /\ UNCHANGED <<channels, currentRoom>>
  /\ heap' = Collect(heap)

Next ==
  \E c \in Conns :
    \/ \E roomId \in RoomIds, roomName \in RoomNames, userName \in UserNames :
         CreateRoom(c, roomId, roomName, userName)
    \/ \E roomId \in RoomIds, userName \in UserNames : JoinRoom(c, roomId, userName)
    \/ \E ev \in RoomEvents : NoRoomEvent(c, ev)
    \/ \E story \in Stories : SetStory(c, story)
    \/ \E vote \in VoteInputs : CastVote(c, vote)
    \/ RevealVotes(c)
    \/ ClearVotes(c)
    \/ DisconnectNoRoom(c)
    \/ DisconnectRemove(c)
    \/ DisconnectEmpty(c)
    \/ DisconnectUserLeft(c)
    \/ DisconnectDelete(c)

Spec == Init /\ [][Next]_vars

\* ------------------------------------------------- statistics of a round
\* A round of one room seen from its reveal: socket 1 has created the room,
\* the sockets 2..MaxVoters have joined it, and the members have cast any of
\* StatsTokens or nothing (cast-vote stores whatever token it is sent). From
\* there the members reveal and clear. emitted and last record the steps of
\* this specification only.
MaxVoters == 4

Voters == 1 .. MaxVoters

StatsTokens == {"0", "3", "5", "8", "?", "coffee", "1/2"}

VoteMaps == UNION {[S -> StatsTokens] : S \in SUBSET Voters}

\* the room after create-room by socket 1 and join-room by the others
JoinedRoom(roomId, roomName, userName) ==
  [NewRoom(roomId, roomName) EXCEPT
     !.users = [i \in Voters |-> [id |-> i, name |-> userName, isSpectator |-> FALSE]]]

InitStats ==
  \E votes \in VoteMaps :
    /\ conn = [c \in Voters |-> "connected"]
    /\ heap = <<[JoinedRoom("r1", "Sprint 1", "Alice") EXCEPT !.votes = votes]>>
    /\ rooms = <<[id |-> "r1", ref |-> 1]>>
    /\ channels = [r \in RoomIds |-> IF r = "r1" THEN Voters ELSE {}]
    /\ hroom = [c \in Voters |-> NoRoom]
    /\ huser = [c \in Voters |-> NoUser]
    /\ emitted = <<>>
    /\ last = Handling("listen", 0, <<>>)
    /\ currentRoom = [c \in Voters |-> NullRoom]

NextStats == \E c \in Voters : RevealVotes(c) \/ ClearVotes(c)

SpecStats == InitStats /\ [][NextStats]_vars

\* ------------------------------------------- a disconnect in progress
\* The server from the moment the disconnect handler of socket 1 waits for
\* its user_disconnected log write: socket 1 had created room "r1", socket 2
\* had joined it, and socket 1's removeUser has just been done. Every other
\* socket goes on sending events and socket 1's handler resumes at any time.
AfterRemoval ==
  removeUser(addUser(addUser(NewRoom("r1", "Sprint 1"), 1, "Alice"), 2, "Alice"), 1)

InitLeft ==
  /\ conn = [c \in Conns |-> IF c = 1 THEN "logDisconnected" ELSE "connected"]
  /\ heap = <<AfterRemoval>>
  /\ rooms = <<[id |-> "r1", ref |-> 1]>>
  /\ channels = [r \in RoomIds |-> IF r = "r1" THEN {2} ELSE {}]
  /\ hroom = [c \in Conns |-> IF c = 1 THEN 1 ELSE NoRoom]
  /\ huser = [c \in Conns |-> IF c = 1 THEN "Alice" ELSE NoUser]
  /\ emitted = <<>>
  /\ last = Handling("disconnect", 1, <<>>)
  /\ currentRoom = [c \in Conns |-> NullRoom]

NextLeft ==
  \E c \in Conns :
    \/ \E roomId \in RoomIds, roomName \in RoomNames, userName \in UserNames :
         CreateRoom(c, roomId, roomName, userName)
    \/ \E roomId \in RoomIds, userName \in UserNames : JoinRoom(c, roomId, userName)
    \/ \E story \in Stories : SetStory(c, story)
    \/ \E vote \in VoteInputs : CastVote(c, vote)
    \/ RevealVotes(c)
    \/ ClearVotes(c)
    \/ DisconnectRemove(c)
    \/ DisconnectEmpty(c)
    \/ DisconnectUserLeft(c)
    \/ DisconnectDelete(c)

SpecLeft == InitLeft /\ [][NextLeft]_vars

\* ------------------------------------------------- any vote payload
\* The room of the statistics round before any vote, with its members casting
\* any payload: a card of the deck, a sentinel, and "100", which is no card.
VotePayloads == {"5", "?", "100"}

InitCast ==
  /\ conn = [c \in Voters |-> "connected"]
  /\ heap = <<JoinedRoom("r1", "Sprint 1", "Alice")>>
  /\ rooms = <<[id |-> "r1", ref |-> 1]>>
  /\ channels = [r \in RoomIds |-> IF r = "r1" THEN Voters ELSE {}]
  /\ hroom = [c \in Voters |-> NoRoom]
  /\ huser = [c \in Voters |-> NoUser]
  /\ emitted = <<>>
  /\ last = Handling("listen", 0, <<>>)
  /\ currentRoom = [c \in Voters |-> NullRoom]

NextCast ==
  \E c \in Voters :
    \/ \E vote \in VotePayloads : CastVote(c, vote)
    \/ RevealVotes(c)
    \/ ClearVotes(c)

SpecCast == InitCast /\ [][NextCast]_vars

\* ------------------------------------------------- the audit-log write
\* historyLogger.logAction (src/history.js): how the promise it returns
\* settles. isConnected is the logger's flag; fault says what goes wrong in
\* the write: nothing, db.run reporting an error to its callback, or the
\* code that builds the insert throwing.
LogFaults == {"none", "insertError", "buildThrows"}

\* logAction with reject(err) in the db.run callback
logActionRejecting(isConnected, fault) ==
  IF ~isConnected THEN "resolved"
  ELSE IF fault = "buildThrows" THEN "resolved"
  ELSE IF fault = "insertError" THEN "rejected"
  ELSE "resolved"

logAction(isConnected, fault) ==
  IF ~isConnected THEN "resolved"
  ELSE IF fault = "buildThrows" THEN "resolved"
  ELSE IF fault = "insertError" THEN "resolved"
  ELSE "resolved"

\* the events whose handler ends in `await historyLogger.logAction(...)`
\* after it has emitted
LoggedEvents == {"create-room", "join-room"} \cup RoomEvents

\* the log write of the handler of socket c that has just emitted settles;
\* logAction has no access to rooms or to the sockets
LogWrite(c, isConnected, fault) ==
  /\ last.socket = c
  /\ last.ev \in LoggedEvents
  /\ emitted # <<>>
  /\ last' = Handling("log-settled", c,
                      [of |-> last.ev, isConnected |-> isConnected, fault |-> fault,
                       promise |-> logAction(isConnected, fault)])
  /\ UNCHANGED <<conn, heap, rooms, channels, hroom, huser, emitted, currentRoom>>

NextLog ==
  \/ NextLeft
  \/ \E c \in Conns, isConnected \in BOOLEAN, fault \in LogFaults :
       LogWrite(c, isConnected, fault)

SpecLog == InitLeft /\ [][NextLog]_vars

\* ------------------------------------- the server variant src/unnamed/part_000
\* The variant differs from src/server.js in Room.getVotingStats, which starts
\* with `if (!this.votingRevealed) return null;`. Its reveal-votes handler is
\* the same text: the stats are taken before revealVotes().
getVotingStatsPart000(room) ==
  IF ~room.votingRevealed THEN NoStats
  ELSE
    LET votes == SelectSeq(ValuesOf(room.votes), LAMBDA v : v # "?" /\ v # "coffee")
        parsable == SelectSeq(votes, LAMBDA v : ~isNaNParse(v))
        numericVotes == [i \in DOMAIN parsable |-> parseInt(parsable[i])]
        n == Len(numericVotes)
        sortedVotes == SortAsc(numericVotes)
    IN IF n = 0 THEN NoStats
       ELSE [average |-> (20 * SumSeq(numericVotes) + n) \div (2 * n),
             median |-> IF n % 2 = 0
                          THEN (sortedVotes[n \div 2] + sortedVotes[n \div 2 + 1]) * 5
                          ELSE sortedVotes[n \div 2 + 1] * 10,
             min |-> MinSeq(numericVotes),
             max |-> MaxSeq(numericVotes),
             totalVotes |-> Cardinality(DOMAIN room.votes)]

\* socket.on('reveal-votes') of the variant
RevealVotesPart000(c) ==
  /\ last' = Handling("reveal-votes", c, <<>>)
  /\ conn[c] = "connected"
  /\ getUserRoom(c) # NoRoom
  /\ LET ref == getUserRoom(c)
         stats == getVotingStatsPart000(Deref(ref))
         room == revealVotes(Deref(ref))
     IN /\ emitted' = <<Emit("votes-revealed", ToChannel(channels, room.id), ref,
                             [room |-> getRoomData(room), stats |-> stats])>>
        /\ UNCHANGED <<conn, rooms, channels, hroom, huser, currentRoom>>
        /\ heap' = Collect([heap EXCEPT ![ref] = room])

\* the statistics round of the variant: its clear-votes handler is that of
\* src/server.js
NextPart000 == \E c \in Voters : RevealVotesPart000(c) \/ ClearVotes(c)

SpecPart000 == InitStats /\ [][NextPart000]_vars

\* ------------------------------------------------- the stock client
\* src/public/app.js, one client per socket, on the game-room page: socket 1
\* has created room "r1", the other sockets have joined it, every client has
\* received the room, and nobody leaves. A gesture of the user makes the
\* client emit an event, which the server handles in the same step; what the
\* server emits reaches a client by a step of its own, ClientReceive, so a
\* client may act on a snapshot that is older than the room. Every socket is
\* a member throughout, so getUserRoom finds its room in every handler.

\* the events of the last server step delivered to socket c with a room in them
Inbox(c) == {i \in DOMAIN emitted : c \in emitted[i].to /\ emitted[i].obj # NoRoom}

\* socket.on('user-joined') ... socket.on('votes-cleared'), in the order of
\* arrival: currentRoom = data.room
ClientReceive(c) ==
  /\ Inbox(c) # {}
  /\ LET i == CHOOSE i \in Inbox(c) : \A j \in Inbox(c) : j <= i
     IN /\ currentRoom[c] # emitted[i].payload.room
        /\ currentRoom' = [currentRoom EXCEPT ![c] = emitted[i].payload.room]
  /\ UNCHANGED <<conn, heap, rooms, channels, hroom, huser, emitted, last>>

\* setStoryBtn click: `if (story && currentRoom)`
ClientSetStory(c, story) ==
  /\ currentRoom[c] # NullRoom
  /\ SetStory(c, story)

\* castVote(vote): `if (currentRoom && !currentRoom.votingRevealed)`
ClientCastVote(c, vote) ==
  /\ currentRoom[c] # NullRoom
  /\ ~currentRoom[c].votingRevealed
  /\ CastVote(c, vote)

\* revealBtn click; updateRevealButton enables the button when the snapshot
\* holds a vote and is not revealed
ClientRevealVotes(c) ==
  /\ currentRoom[c] # NullRoom
  /\ DOMAIN currentRoom[c].votes # {}
  /\ ~currentRoom[c].votingRevealed
  /\ RevealVotes(c)

\* clearBtn click; showVotingResults shows the button for a revealed snapshot
ClientClearVotes(c) ==
  /\ currentRoom[c] # NullRoom
  /\ currentRoom[c].votingRevealed
  /\ ClearVotes(c)

\* importStoryToRoom(storyKey): socket.emit('setStory', {roomId:
\* currentRoom.id, story, ...}). The server registers handlers for
\* create-room, join-room, set-story, cast-vote, reveal-votes, clear-votes and
\* disconnect: an event named 'setStory' reaches no handler.
ClientImportStory(c, story) ==
  /\ currentRoom[c] # NullRoom
  /\ conn[c] = "connected"
  /\ last' = Handling("setStory", c, [roomId |-> currentRoom[c].id, story |-> story])
  /\ emitted' = <<>>
  /\ UNCHANGED <<conn, rooms, channels, hroom, huser, currentRoom>>
  /\ heap' = Collect(heap)

\* the room after create-room by socket 1 and join-room by the others
GameRoom ==
  [NewRoom("r1", "Sprint 1") EXCEPT
     !.users = [i \in Conns |-> [id |-> i, name |-> "Alice", isSpectator |-> FALSE]]]

InitClient ==
  /\ conn = [c \in Conns |-> "connected"]
  /\ heap = <<GameRoom>>
  /\ rooms = <<[id |-> "r1", ref |-> 1]>>
  /\ channels = [r \in RoomIds |-> IF r = "r1" THEN Conns ELSE {}]
  /\ hroom = [c \in Conns |-> NoRoom]
  /\ huser = [c \in Conns |-> NoUser]
  /\ emitted = <<>>
  /\ last = Handling("listen", 0, <<>>)
  /\ currentRoom = [c \in Conns |-> getRoomData(GameRoom)]

NextClient ==
  \E c \in Conns :
    \/ ClientReceive(c)
    \/ \E story \in Stories : ClientSetStory(c, story)
    \/ \E vote \in VoteInputs : ClientCastVote(c, vote)
    \/ ClientRevealVotes(c)
    \/ ClientClearVotes(c)
    \/ \E story \in Stories : ClientImportStory(c, story)

SpecClient == InitClient /\ [][NextClient]_vars

\* ------------------------------------------------------------ properties
\* the emitted events that carry a room snapshot
Snapshots == {i \in DOMAIN emitted : emitted[i].obj # NoRoom}

SnapshotOf(i) == emitted[i].payload.room

\* the Room object the snapshot of emitted[i] was taken from, as it is now
SourceOf(i) == heap[emitted[i].obj]

\* the rooms of the registry, as objects
Registered == {heap[rooms[i].ref] : i \in DOMAIN rooms}

\* C1: vote secrecy. In every room snapshot emitted while the room's
\* votingRevealed is false, every value of the snapshot's votes map is the
\* placeholder and no token a client can cast, whoever receives it.
VoteSecrecy ==
  \A i \in Snapshots :
    ~SourceOf(i).votingRevealed =>
      \A k \in DOMAIN SnapshotOf(i).votes :
        /\ SnapshotOf(i).votes[k] = MASK
        /\ SnapshotOf(i).votes[k] \notin VoteInputs

\* a vote-cast event delivered to the voter itself, whose vote is recorded,
\* while the room is not revealed
VoteSecrecyWitness ==
  \E i \in Snapshots :
    /\ emitted[i].event = "vote-cast"
    /\ emitted[i].payload.userId \in emitted[i].to
    /\ emitted[i].payload.userId \in DOMAIN SourceOf(i).votes
    /\ ~SourceOf(i).votingRevealed

\* C2: in every room the sockets holding a vote are members, and none of
\* them is a spectator.
VotesSubsetOfMembers ==
  \A ref \in DOMAIN heap :
    \A k \in VoteKeys(heap[ref]) :
      /\ UsersHas(heap[ref], k)
      /\ ~UsersGet(heap[ref], k).isSpectator

\* a disconnect has removed a socket from a registered room in which another
\* member still holds a vote
VotesSubsetWitness ==
  \E c \in Conns :
    /\ conn[c] = "logDisconnected"
    /\ \E i \in DOMAIN rooms :
         /\ rooms[i].ref = hroom[c]
         /\ VoteKeys(heap[hroom[c]]) # {}

\* C3: masking replaces values and drops no entry. The key set of every
\* emitted snapshot's votes map is the key set of the room's votes map.
MaskKeepsKeys ==
  \A i \in Snapshots : DOMAIN SnapshotOf(i).votes = VoteKeys(SourceOf(i))

\* a masked snapshot with an entry in it reaches a socket that joins
MaskKeepsKeysWitness ==
  \E i \in Snapshots :
    /\ emitted[i].event = "room-joined"
    /\ ~SourceOf(i).votingRevealed
    /\ VoteKeys(SourceOf(i)) # {}
    /\ SnapshotOf(i).votes # SourceOf(i).votes

\* C4: once a room is revealed its votes are frozen. Between two states in
\* which the room is revealed no entry of its votes map appears or changes.
VotesFrozenOnceRevealed ==
  [][\A ref \in DOMAIN heap :
       (heap[ref].votingRevealed /\ heap'[ref].votingRevealed) =>
         \A k \in VoteKeys(heap'[ref]) :
           /\ k \in VoteKeys(heap[ref])
           /\ heap'[ref].votes[k] = heap[ref].votes[k]]_vars

\* C5: every socket is a member of at most one room of the registry.
OneRoomPerConnection ==
  \A c \in Conns :
    Cardinality({i \in DOMAIN rooms : UsersHas(heap[rooms[i].ref], c)}) <= 1

\* C6: every room of the registry has at least one member.
NoEmptyRoomRegistered == \A room \in Registered : Len(room.users) > 0

\* the Room objects the registry or a suspended disconnect handler refers to
InUse == {rooms[i].ref : i \in DOMAIN rooms} \cup ({hroom[c] : c \in Conns} \ {NoRoom})

\* the sockets whose disconnect handler has removed them from the Room
\* object ref and has not finished
Leaving(ref) ==
  {d \in Conns : conn[d] \in {"logDisconnected", "logDeleted"} /\ hroom[d] = ref}

\* C7: once the last member of a room has disconnected, a join-room with
\* that room's id gets the error 'Room not found' and joins nothing.
JoinAfterLastLeftFails ==
  [][\A roomId \in RoomIds :
       ( /\ RoomsGet(roomId) # NoRoom
         /\ Len(Deref(RoomsGet(roomId)).users) = 0
         /\ Leaving(RoomsGet(roomId)) # {}
         /\ last'.ev = "join-room"
         /\ last'.data.roomId = roomId )
       => /\ Len(emitted') = 1
          /\ emitted'[1].event = "error"
          /\ emitted'[1].payload.message = "Room not found"
          /\ \A ref \in InUse : heap'[ref].users = heap[ref].users]_vars

\* the step just taken handled a join-room of socket c for roomId
JoinStep(c, roomId) ==
  /\ last'.ev = "join-room"
  /\ last'.socket = c
  /\ last'.data.roomId = roomId

\* the entries of the registry whose room has socket c as a member
RoomsOf(c) == {i \in DOMAIN rooms : UsersHas(heap[rooms[i].ref], c)}

\* C8: a join-room whose roomId is not in the registry emits only
\* error {message: 'Room not found'}, to the joining socket alone, and leaves
\* the registry, every room and the channels as they were.
JoinUnknownRoomOnlyErrors ==
  [][\A c \in Conns, roomId \in RoomIds :
       (RoomsGet(roomId) = NoRoom /\ JoinStep(c, roomId)) =>
         /\ Len(emitted') = 1
         /\ emitted'[1].event = "error"
         /\ emitted'[1].payload = [message |-> "Room not found"]
         /\ emitted'[1].to = {c}
         /\ rooms' = rooms
         /\ \A ref \in InUse : heap'[ref] = heap[ref]
         /\ channels' = channels
         /\ RoomsOf(c)' = RoomsOf(c)]_vars

\* a join-room for an id that is not registered has just been refused while
\* another room, with a member and a vote in it, is registered
JoinUnknownRoomWitness ==
  /\ last.ev = "join-room"
  /\ RoomsGet(last.data.roomId) = NoRoom
  /\ Len(emitted) = 1
  /\ emitted[1].event = "error"
  /\ \E room \in Registered : Len(room.users) > 0 /\ VoteKeys(room) # {}

\* the events of the last step that socket m received
ReceivedBy(m) == {i \in DOMAIN emitted : m \in emitted[i].to}

SnapshotUserIds(i) == {SnapshotOf(i).users[j].id : j \in DOMAIN SnapshotOf(i).users}

\* C9: after a join-room with an existing roomId the joiner is a member, the
\* previous members still are, and the joiner and every previous member
\* receive a snapshot whose users are exactly the room's members.
JoinReachesAllMembers ==
  [][\A c \in Conns, roomId \in RoomIds :
       (RoomsGet(roomId) # NoRoom /\ JoinStep(c, roomId)) =>
         LET ref == RoomsGet(roomId)
         IN /\ UsersHas(heap'[ref], c)
            /\ UserIds(heap[ref]) \subseteq UserIds(heap'[ref])
            /\ \A m \in UserIds(heap[ref]) \cup {c} :
                 \E i \in ReceivedBy(m)' :
                   /\ emitted'[i].obj = ref
                   /\ SnapshotUserIds(i)' = UserIds(heap'[ref])]_vars

\* C10: on a successful join-room, room-joined goes to the joiner only and
\* user-joined goes to every other member of the room and not to the joiner.
JoinEventsRouting ==
  [][\A c \in Conns, roomId \in RoomIds :
       (RoomsGet(roomId) # NoRoom /\ JoinStep(c, roomId)) =>
         \A i \in DOMAIN emitted' :
           /\ emitted'[i].event = "room-joined" => emitted'[i].to = {c}
           /\ emitted'[i].event = "user-joined" =>
                emitted'[i].to = UserIds(heap'[RoomsGet(roomId)]) \ {c}]_vars

\* the step just taken handled event ev of socket c
Handled(c, ev) == last'.ev = ev /\ last'.socket = c

\* C11: create-room registers a new room whose members are exactly the
\* creating socket, with an empty story, no votes and votingRevealed false,
\* and emits room-created with that room's snapshot to the creator only.
CreateRoomFresh ==
  [][\A c \in Conns :
       Handled(c, "create-room") =>
         /\ Len(emitted') = 1
         /\ emitted'[1].event = "room-created"
         /\ emitted'[1].to = {c}
         /\ LET ref == emitted'[1].obj
                roomId == emitted'[1].payload.roomId
                snap == emitted'[1].payload.room
            IN /\ ref \notin DOMAIN heap
               /\ \E i \in DOMAIN rooms' :
                    rooms'[i] = [id |-> roomId, ref |-> ref]
               /\ heap'[ref].id = roomId
               /\ heap'[ref].name = last'.data.roomName
               /\ UserIds(heap'[ref]) = {c}
               /\ heap'[ref].currentStory = ""
               /\ heap'[ref].votes = NoVotes
               /\ ~heap'[ref].votingRevealed
               /\ snap.id = roomId
               /\ snap.name = heap'[ref].name
               /\ snap.users = heap'[ref].users
               /\ snap.currentStory = ""
               /\ snap.votes = NoVotes
               /\ ~snap.votingRevealed]_vars

\* a socket has just created a room under an id whose channel another socket
\* is in, and got room-created
CreateRoomFreshWitness ==
  /\ last.ev = "create-room"
  /\ Len(emitted) = 1
  /\ emitted[1].event = "room-created"
  /\ emitted[1].to = {last.socket}
  /\ RoomsGet(emitted[1].payload.roomId) = emitted[1].obj
  /\ channels[emitted[1].payload.roomId] \ {last.socket} # {}

\* C12: create-room never overwrites a room. Every room registered before a
\* create-room is still registered under its id afterwards, as the same
\* object, with its members, votes and story unchanged.
CreateRoomKeepsRooms ==
  [][\A c \in Conns :
       Handled(c, "create-room") =>
         \A i \in DOMAIN rooms :
           /\ \E j \in DOMAIN rooms' : rooms'[j] = rooms[i]
           /\ heap'[rooms[i].ref].users = heap[rooms[i].ref].users
           /\ heap'[rooms[i].ref].votes = heap[rooms[i].ref].votes
           /\ heap'[rooms[i].ref].currentStory = heap[rooms[i].ref].currentStory]_vars

\* C13: a set-story from a member of a room, whether the room is collecting
\* or revealed, leaves that room with the supplied story, no votes,
\* votingRevealed false and the members it had.
SetStoryResets ==
  [][\A c \in Conns :
       (Handled(c, "set-story") /\ getUserRoom(c) # NoRoom) =>
         LET ref == getUserRoom(c)
         IN /\ UsersHas(heap[ref], c)
            /\ heap'[ref].currentStory = last'.data.story
            /\ heap'[ref].votes = NoVotes
            /\ ~heap'[ref].votingRevealed
            /\ heap'[ref].users = heap[ref].users]_vars

\* a member has just set the story of a registered room that has another
\* member too, and the room holds the story and no vote
SetStoryResetsWitness ==
  /\ last.ev = "set-story"
  /\ getUserRoom(last.socket) # NoRoom
  /\ LET room == Deref(getUserRoom(last.socket))
     IN /\ Len(room.users) > 1
        /\ room.currentStory = last.data.story
        /\ room.currentStory # ""
        /\ VoteKeys(room) = {}
        /\ ~room.votingRevealed

\* the last step handled a clear-votes that cleared the Room object ref
Cleared(ref) ==
  /\ last.ev = "clear-votes"
  /\ Len(emitted) = 1
  /\ emitted[1].obj = ref

\* C14: clearVotes is idempotent. A clear-votes handled right after a
\* clear-votes of the same room leaves the room in the state the first one
\* left it in: no votes, votingRevealed false, same story and members.
ClearVotesIdempotent ==
  [][\A ref \in DOMAIN heap :
       (Cleared(ref) /\ Cleared(ref)') =>
         /\ heap'[ref] = heap[ref]
         /\ heap'[ref] = clearVotes(clearVotes(heap[ref]))
         /\ heap'[ref].votes = NoVotes
         /\ ~heap'[ref].votingRevealed
         /\ emitted'[1].payload = emitted[1].payload]_vars

\* a clear-votes has just cleared a registered room that has a story and two
\* members, both connected, so that either can send the second clear-votes
ClearVotesIdempotentWitness ==
  \E i \in DOMAIN rooms :
    /\ Cleared(rooms[i].ref)
    /\ heap[rooms[i].ref].currentStory # ""
    /\ Len(heap[rooms[i].ref].users) = 2
    /\ \A c \in UserIds(heap[rooms[i].ref]) :
         conn[c] = "connected" /\ getUserRoom(c) = rooms[i].ref

\* C15: a clear-votes from a member empties the room's votes and sets
\* votingRevealed false; the room's story, members, id and name, the registry
\* and every other room are as they were.
ClearVotesFrame ==
  [][\A c \in Conns :
       (Handled(c, "clear-votes") /\ getUserRoom(c) # NoRoom) =>
         LET ref == getUserRoom(c)
         IN /\ heap'[ref].votes = NoVotes
            /\ ~heap'[ref].votingRevealed
            /\ heap'[ref].currentStory = heap[ref].currentStory
            /\ heap'[ref].users = heap[ref].users
            /\ heap'[ref].id = heap[ref].id
            /\ heap'[ref].name = heap[ref].name
            /\ rooms' = rooms
            /\ \A other \in InUse \ {ref} : heap'[other] = heap[other]]_vars

\* a clear-votes has just been handled for a room that has a story while
\* another room, with a vote in it, is registered
ClearVotesFrameWitness ==
  /\ last.ev = "clear-votes"
  /\ Len(emitted) = 1
  /\ heap[emitted[1].obj].currentStory # ""
  /\ VoteKeys(heap[emitted[1].obj]) = {}
  /\ \E i \in DOMAIN rooms :
       /\ rooms[i].ref # emitted[1].obj
       /\ VoteKeys(heap[rooms[i].ref]) # {}

\* C16: last vote wins. After a cast-vote from a member the room's votes map
\* holds for that socket the token just cast, whatever it held before, and
\* the entries of the other sockets are the ones it had.
LastVoteWins ==
  [][\A c \in Conns :
       (Handled(c, "cast-vote") /\ getUserRoom(c) # NoRoom) =>
         LET ref == getUserRoom(c)
         IN /\ VoteKeys(heap'[ref]) = VoteKeys(heap[ref]) \cup {c}
            /\ heap'[ref].votes[c] = last'.data.vote
            /\ \A k \in VoteKeys(heap[ref]) \ {c} :
                 heap'[ref].votes[k] = heap[ref].votes[k]]_vars

\* a member has just cast a token in a room where another member holds a
\* different token
LastVoteWinsWitness ==
  /\ last.ev = "cast-vote"
  /\ getUserRoom(last.socket) # NoRoom
  /\ LET room == Deref(getUserRoom(last.socket))
     IN /\ last.socket \in VoteKeys(room)
        /\ room.votes[last.socket] = last.data.vote
        /\ \E k \in VoteKeys(room) \ {last.socket} :
             room.votes[k] # last.data.vote

\* C17: a set-story, cast-vote, reveal-votes or clear-votes from socket c
\* changes a room only if c is a member of that room when the event is
\* handled; the registry is as it was.
OnlyMembersMutate ==
  [][\A c \in Conns, ev \in RoomEvents :
       Handled(c, ev) =>
         /\ rooms' = rooms
         /\ \A ref \in InUse :
              heap'[ref] # heap[ref] => UsersHas(heap[ref], c)]_vars

\* a member of one registered room has just changed it by a room event while
\* another room, of which it is not a member, is registered
OnlyMembersMutateWitness ==
  /\ last.ev \in RoomEvents
  /\ Len(emitted) = 1
  /\ UsersHas(heap[emitted[1].obj], last.socket)
  /\ \E i \in DOMAIN rooms :
       /\ rooms[i].ref # emitted[1].obj
       /\ Len(heap[rooms[i].ref].users) > 0
       /\ ~UsersHas(heap[rooms[i].ref], last.socket)

\* C18: a set-story, cast-vote, reveal-votes, clear-votes or disconnect from
\* a socket that is a member of no room of the registry leaves the registry
\* and every room as they were and emits nothing.
NoRoomEventsIgnored ==
  [][\A c \in Conns, ev \in RoomEvents \cup {"disconnect"} :
       (Handled(c, ev) /\ RoomsOf(c) = {}) =>
         /\ emitted' = <<>>
         /\ rooms' = rooms
         /\ \A ref \in InUse : heap'[ref] = heap[ref]]_vars

\* a room event of a socket that is in no room has just been ignored while a
\* room with a member and a vote in it is registered
NoRoomEventsIgnoredWitness ==
  /\ last.ev \in RoomEvents
  /\ conn[last.socket] = "connected"
  /\ RoomsOf(last.socket) = {}
  /\ emitted = <<>>
  /\ \E room \in Registered : Len(room.users) > 0 /\ VoteKeys(room) # {}

\* the votes-revealed events of the last step
Reveals == {i \in DOMAIN emitted : emitted[i].event = "votes-revealed"}

\* the sockets whose token in a votes map parses to an integer
NumericKeys(votes) ==
  {k \in DOMAIN votes : votes[k] \notin {"?", "coffee"} /\ ~isNaNParse(votes[k])}

\* C19: the stats of votes-revealed are null exactly when no vote of the room
\* parses to an integer; the reveal takes effect all the same: votingRevealed
\* is true and the event carries the unmasked votes to the room's channel.
NullStatsIffNoNumericVote ==
  \A i \in Reveals :
    /\ emitted[i].payload.stats = NoStats
         <=> NumericKeys(SourceOf(i).votes) = {}
    /\ SourceOf(i).votingRevealed
    /\ SnapshotOf(i).votingRevealed
    /\ SnapshotOf(i).votes = SourceOf(i).votes
    /\ emitted[i].to = channels[SourceOf(i).id]

\* a reveal of a room whose votes are '?', the coffee cup and the one-half
\* sign has just been broadcast without stats
NullStatsWitness ==
  \E i \in Reveals :
    /\ emitted[i].payload.stats = NoStats
    /\ Range(SnapshotOf(i).votes) = {"?", "coffee", "1/2"}
    /\ SourceOf(i).votingRevealed
    /\ emitted[i].to = Voters

\* the parsed values of the numeric votes of a votes map, by socket
NumericValue(votes) == [k \in NumericKeys(votes) |-> parseInt(votes[k])]

\* the j-th smallest of the values of f, counted with repetitions
KthSmallest(f, j) ==
  CHOOSE v \in Range(f) :
    /\ Cardinality({k \in DOMAIN f : f[k] < v}) < j
    /\ Cardinality({k \in DOMAIN f : f[k] <= v}) >= j

\* C20: with at least one numeric vote, min and max are the smallest and
\* the largest numeric vote, median is the middle of the sorted numeric votes
\* (the mean of the two central ones for an even count, here in tenths), and
\* totalVotes counts every entry of the votes map.
StatsMinMaxMedianTotal ==
  \A i \in Reveals :
    LET votes == SourceOf(i).votes
        f == NumericValue(votes)
        n == Cardinality(DOMAIN f)
        stats == emitted[i].payload.stats
    IN n > 0 =>
         /\ stats # NoStats
         /\ stats.min \in Range(f) /\ \A k \in DOMAIN f : stats.min <= f[k]
         /\ stats.max \in Range(f) /\ \A k \in DOMAIN f : stats.max >= f[k]
         /\ stats.median =
              5 * (KthSmallest(f, (n + 1) \div 2) + KthSmallest(f, n \div 2 + 1))
         /\ stats.totalVotes = Cardinality(DOMAIN votes)

\* a reveal with an even number of numeric votes whose two central values
\* differ, next to a '?' and an unparsable token
StatsWitness ==
  \E i \in Reveals :
    /\ Range(SnapshotOf(i).votes) = {"3", "8", "?", "1/2"}
    /\ emitted[i].payload.stats.median = 55
    /\ emitted[i].payload.stats.min = 3
    /\ emitted[i].payload.stats.max = 8
    /\ emitted[i].payload.stats.totalVotes = 4

\* the sum of the values of f
RECURSIVE SumOver(_)
SumOver(f) ==
  IF DOMAIN f = {} THEN 0
  ELSE LET k == CHOOSE k \in DOMAIN f : TRUE
       IN f[k] + SumOver([x \in DOMAIN f \ {k} |-> f[x]])

\* C21: the average is the mean of the numeric votes alone, rounded to one
\* decimal with halves going up: in tenths, the integer a with
\* a <= 10 * mean + 1/2 < a + 1. Votes 3, 5, 8 and '?' give average 5.3,
\* median 5, min 3, max 8, totalVotes 4.
AverageRoundedToTenths ==
  \A i \in Reveals :
    LET votes == SourceOf(i).votes
        f == NumericValue(votes)
        n == Cardinality(DOMAIN f)
        stats == emitted[i].payload.stats
    IN /\ n > 0 =>
            /\ 2 * n * stats.average <= 20 * SumOver(f) + n
            /\ 20 * SumOver(f) + n < 2 * n * (stats.average + 1)
       /\ (Cardinality(DOMAIN votes) = 4 /\ Range(votes) = {"3", "5", "8", "?"}) =>
            stats = [average |-> 53, median |-> 50, min |-> 3, max |-> 8,
                     totalVotes |-> 4]

\* a reveal of the votes 3, 5, 8 and '?' has reported the average 5.3
AverageWitness ==
  \E i \in Reveals :
    /\ Range(SourceOf(i).votes) = {"3", "5", "8", "?"}
    /\ emitted[i].payload.stats.average = 53
    /\ emitted[i].payload.stats.totalVotes = 4

\* a reveal of four votes whose mean, 3/4, lies half way between two tenths
\* has reported 0.8
AverageHalfWayUp ==
  \E i \in Reveals :
    /\ Cardinality(DOMAIN SourceOf(i).votes) = 4
    /\ SumOver(NumericValue(SourceOf(i).votes)) = 3
    /\ Cardinality(NumericKeys(SourceOf(i).votes)) = 4
    /\ emitted[i].payload.stats.average = 8

\* C22: in every votes-revealed event the stats are the statistics of the
\* votes map the same event's snapshot carries, and that map is the room's
\* votes map, unmasked.
StatsOfSnapshotVotes ==
  \A i \in Reveals :
    /\ emitted[i].payload.stats = getVotingStats(SnapshotOf(i))
    /\ SnapshotOf(i).votes = SourceOf(i).votes
    /\ SnapshotOf(i).votingRevealed
    /\ \A k \in DOMAIN SnapshotOf(i).votes : SnapshotOf(i).votes[k] # MASK

\* a reveal in a room with two members, one holding a number and one a '?',
\* has been broadcast with stats
StatsOfSnapshotWitness ==
  \E i \in Reveals :
    /\ Range(SnapshotOf(i).votes) = {"5", "?"}
    /\ emitted[i].payload.stats # NoStats
    /\ emitted[i].payload.stats.totalVotes = 2
    /\ Cardinality(emitted[i].to) = 2

\* C23: the snapshot a broadcast carries is the room's state right after the
\* mutation of the event that triggered it. The removal of socket 1 left its
\* room as AfterRemoval, so the user-left of socket 1 carries the snapshot of
\* AfterRemoval, whatever the other sockets have sent since.
UserLeftSnapshotAsRemoved ==
  \A i \in DOMAIN emitted :
    (emitted[i].event = "user-left" /\ emitted[i].payload.userId = 1) =>
      emitted[i].payload.room = getRoomData(AfterRemoval)

\* the last step broadcast an event of another socket on the Room object of
\* the suspended disconnect handler of c: its mutation came after c's removal
BroadcastAfterRemovalOf(c) ==
  /\ conn[c] = "logDisconnected"
  /\ last.ev \in RoomEvents \cup {"join-room"}
  /\ \E i \in DOMAIN emitted : emitted[i].obj = hroom[c]

\* C24: broadcasts to a room go out in the order of the mutations that caused
\* them. The removal of a disconnecting socket comes before the mutation of
\* any event handled after it, so its user-left is not emitted right after
\* the broadcast of such an event.
UserLeftBeforeLaterBroadcasts ==
  [][\A c \in Conns :
       BroadcastAfterRemovalOf(c) =>
         ~( /\ Handled(c, "disconnect-resumed")
            /\ \E j \in DOMAIN emitted' : emitted'[j].event = "user-left" )]_vars

\* C25: the mutation, the registry update and the broadcast of an event do
\* not wait for its log write. For a disconnect: the step that removes the
\* member, which ends waiting for the user_disconnected log write, has also
\* emitted user-left to the members that remain or, when none remains, taken
\* the room out of the registry.
DisconnectNotDelayedByLog ==
  [][\A c \in Conns :
       (Handled(c, "disconnect") /\ getUserRoom(c) # NoRoom) =>
         LET ref == getUserRoom(c)
         IN /\ ~UsersHas(heap'[ref], c)
            /\ Len(heap'[ref].users) > 0 =>
                 \E j \in DOMAIN emitted' :
                   emitted'[j].event = "user-left" /\ emitted'[j].payload.userId = c
            /\ Len(heap'[ref].users) = 0 =>
                 \A i \in DOMAIN rooms' : rooms'[i].ref # ref]_vars

\* C26: logAction never rejects into its caller. Whether the store is
\* disconnected, the insert reports an error or building the insert throws,
\* the promise resolves, and the rooms, the registry and the events the
\* handler has emitted are as they were.
LogActionAlwaysResolves ==
  [][last'.ev = "log-settled" =>
       /\ last'.data.promise = "resolved"
       /\ heap' = heap
       /\ rooms' = rooms
       /\ channels' = channels
       /\ emitted' = emitted]_vars

\* the log write of a cast-vote that has been broadcast has settled although
\* the insert reported an error
LogActionWitness ==
  /\ last.ev = "log-settled"
  /\ last.data.of = "cast-vote"
  /\ last.data.isConnected
  /\ last.data.fault = "insertError"
  /\ \E i \in DOMAIN emitted :
       emitted[i].event = "vote-cast" /\ VoteKeys(SourceOf(i)) # {}

\* C27: once the disconnect of a socket has been handled to the end, the
\* socket is a member of no room of the registry and holds no vote in any.
GoneSocketInNoRoom ==
  \A c \in Conns :
    conn[c] = "gone" =>
      \A room \in Registered : ~UsersHas(room, c) /\ c \notin VoteKeys(room)

\* C28: every value stored in a room's votes map is a card of the deck,
\* whatever payloads the clients send in cast-vote.
VotesAreCards ==
  \A ref \in DOMAIN heap :
    \A k \in VoteKeys(heap[ref]) : heap[ref].votes[k] \in Range(cardValues)

\* C29: votingRevealed of a room goes from false to true only by a
\* reveal-votes of a member, and from true to false only by a set-story or a
\* clear-votes; a room starts with it false, and join-room, cast-vote and
\* disconnect leave it as it is.
RevealedChangesOnlyBy ==
  [][\A ref \in DOMAIN heap' :
       IF ref \in InUse /\ ref \in InUse'
         THEN /\ (~heap[ref].votingRevealed /\ heap'[ref].votingRevealed) =>
                   /\ last'.ev = "reveal-votes"
                   /\ UsersHas(heap[ref], last'.socket)
              /\ (heap[ref].votingRevealed /\ ~heap'[ref].votingRevealed) =>
                   last'.ev \in {"set-story", "clear-votes"}
              /\ last'.ev \in {"create-room", "join-room", "cast-vote", "disconnect",
                               "disconnect-resumed"} =>
                   heap'[ref].votingRevealed = heap[ref].votingRevealed
         ELSE ref \notin DOMAIN heap => ~heap'[ref].votingRevealed]_vars

\* a revealed room with two members and a vote, into which a member has
\* just cast a vote
RevealedChangesWitness ==
  /\ last.ev = "cast-vote"
  /\ getUserRoom(last.socket) # NoRoom
  /\ LET room == Deref(getUserRoom(last.socket))
     IN room.votingRevealed /\ Len(room.users) = 2 /\ VoteKeys(room) # {}

\* C30: a reveal-votes sets votingRevealed and changes nothing else of the
\* room: votes, members and story are as they were and no field is added. A
\* reveal-votes handled right after a reveal-votes of the same room leaves
\* the room as it is and reports the same stats.
RevealVotesFrame ==
  [][\A c \in Voters :
       (Handled(c, "reveal-votes") /\ getUserRoom(c) # NoRoom) =>
         LET ref == getUserRoom(c)
         IN /\ heap'[ref] = [heap[ref] EXCEPT !.votingRevealed = TRUE]
            /\ DOMAIN heap'[ref] = DOMAIN heap[ref]
            /\ rooms' = rooms
            /\ (last.ev = "reveal-votes" /\ Len(emitted) = 1 /\ emitted[1].obj = ref) =>
                 /\ heap'[ref] = heap[ref]
                 /\ emitted'[1].payload.stats = emitted[1].payload.stats
                 /\ emitted'[1].payload.room = emitted[1].payload.room]_vars

\* a reveal of a room with numeric votes has just reported stats, and the
\* room is revealed with its votes in place: any member can reveal again
RevealVotesFrameWitness ==
  /\ last.ev = "reveal-votes"
  /\ Len(emitted) = 1
  /\ emitted[1].payload.stats # NoStats
  /\ emitted[1].payload.stats.min < emitted[1].payload.stats.max
  /\ heap[emitted[1].obj].votingRevealed
  /\ Cardinality(VoteKeys(heap[emitted[1].obj])) = 3

\* C31: the registry removes only rooms that have no member. On every step
\* in which a disconnect handler takes out of the registry the room it removed
\* its socket from, that room has zero members, so a socket that joined it
\* and has not disconnected is never left in a room the registry has dropped.
DeletesOnlyEmptyRooms ==
  [][\A c \in Conns, i \in DOMAIN rooms :
       ( /\ conn[c] = "logDeleted"
         /\ last'.socket = c
         /\ rooms[i].ref = hroom[c]
         /\ ~\E j \in DOMAIN rooms' : rooms'[j].id = rooms[i].id )
       => Len(heap[rooms[i].ref].users) = 0]_vars

\* the sockets whose disconnect handler has issued the room_deleted log write
\* for the Room object ref and has rooms.delete still to do
Deleting(ref) == {c \in Conns : conn[c] = "logDeleted" /\ hroom[c] = ref}

\* C32: a room is deleted once. No two disconnect handlers have logged
\* room_deleted for the same room and are both about to call rooms.delete
\* with its id.
RoomDeletedOnce ==
  \A ref \in DOMAIN heap : Cardinality(Deleting(ref)) <= 1

\* the events sent with io.to(room.id).emit
Broadcasts ==
  {"user-joined", "story-updated", "vote-cast", "votes-revealed", "votes-cleared",
   "user-left"}

\* C33: room isolation of broadcasts. Every broadcast that carries a room
\* snapshot is received by exactly the members the room has when it is
\* emitted, and the channel of every registered room's id holds exactly that
\* room's members.
RoomIsolation ==
  /\ \A i \in Snapshots :
       emitted[i].event \in Broadcasts => emitted[i].to = UserIds(SourceOf(i))
  /\ \A i \in DOMAIN rooms : channels[rooms[i].id] = UserIds(heap[rooms[i].ref])

\* C34: in the variant src/unnamed/part_000, a reveal-votes on a room that is
\* not revealed and holds at least one numeric vote emits votes-revealed with
\* stats that are not null and are the statistics of the room's votes; votes
\* 3, 5, 8 and '?' give average 5.3, median 5, min 3, max 8, totalVotes 4.
Part000RevealReportsStats ==
  [][\A c \in Voters :
       ( /\ Handled(c, "reveal-votes")
         /\ getUserRoom(c) # NoRoom
         /\ ~Deref(getUserRoom(c)).votingRevealed
         /\ NumericKeys(Deref(getUserRoom(c)).votes) # {} )
       => LET room == Deref(getUserRoom(c))
          IN /\ Len(emitted') = 1
             /\ emitted'[1].event = "votes-revealed"
             /\ emitted'[1].payload.stats # NoStats
             /\ emitted'[1].payload.stats = getVotingStats(room)
             /\ (Cardinality(DOMAIN room.votes) = 4
                 /\ Range(room.votes) = {"3", "5", "8", "?"}) =>
                  emitted'[1].payload.stats =
                    [average |-> 53, median |-> 50, min |-> 3, max |-> 8,
                     totalVotes |-> 4]]_vars

\* the cards of the deck other than the two sentinels
NumericCards == Range(cardValues) \ {"?", "coffee"}

\* the value a numeric card stands for, in tenths (the one-half card is 5)
CardTenths(v) == IF v = "1/2" THEN 5 ELSE 10 * parseInt(v)

\* C35: every card of the deck but '?' and the coffee cup counts as numeric
\* in the statistics. When a vote for such a card ('0' and the one-half card
\* included) is in the votes of a reveal, the stats are not null and the
\* card's value lies within min and max.
EveryNumericCardCounts ==
  \A i \in Reveals :
    \A k \in DOMAIN SourceOf(i).votes :
      LET v == SourceOf(i).votes[k]
          stats == emitted[i].payload.stats
      IN v \in NumericCards =>
           /\ stats # NoStats
           /\ 10 * stats.min <= CardTenths(v)
           /\ CardTenths(v) <= 10 * stats.max

\* C36: with the stock clients, which send cast-vote only while the snapshot
\* they hold is not revealed, the server records or overwrites no vote in a
\* room that is revealed: a cast-vote handled after another member's
\* reveal-votes, while the room is revealed, leaves the room's votes as they
\* are.
NoVoteWhileRevealed ==
  [][\A c \in Conns :
       ( /\ Handled(c, "cast-vote")
         /\ last.ev = "reveal-votes"
         /\ last.socket # c
         /\ getUserRoom(c) # NoRoom
         /\ Deref(getUserRoom(c)).votingRevealed )
       => heap'[getUserRoom(c)].votes = Deref(getUserRoom(c)).votes]_vars

\* C37: when the stock client imports a story into its room, the server
\* applies a set-story for that room: currentStory becomes the imported text,
\* the votes are cleared and the reveal reset, and story-updated goes to the
\* room's channel.
ImportSetsStory ==
  [][\A c \in Conns :
       (Handled(c, "setStory") /\ RoomsGet(last'.data.roomId) # NoRoom) =>
         LET ref == RoomsGet(last'.data.roomId)
         IN /\ heap'[ref].currentStory = last'.data.story
            /\ heap'[ref].votes = NoVotes
            /\ ~heap'[ref].votingRevealed
            /\ \E i \in DOMAIN emitted' :
                 /\ emitted'[i].event = "story-updated"
                 /\ emitted'[i].to = channels[heap[ref].id]
                 /\ emitted'[i].payload.story = last'.data.story]_vars

====
